---- MODULE Spec2Model ----
(***************************************************************************)
(* A model of examples/inconsistencies: the TTL cache of simple_cache.py   *)
(* (SimpleCache), the write-through race of concurrent_writes.py and the   *)
(* staleness harness of measure_staleness.py.                              *)
(*                                                                         *)
(* Time is the integer reading of time.time(); it only moves in Tick       *)
(* steps, so an operation that reads the clock once sees one instant.      *)
(* A Python dict is a function whose DOMAIN is the set of its keys.        *)
(* Python's None is the string "None"; an optional ttl is <<>> (None) or   *)
(* <<t>>.                                                                  *)
(***************************************************************************)
EXTENDS Integers, FiniteSets, Sequences, TLC

\* ------------------------------------------------------------- bounds
MaxTime == 3
MaxTTL == 1

\* default_ttl=10.0 of the demos, in clock ticks: one tick is 5 seconds
DemoTTL == 2

Keys == {"k1", "k2"}
Values == {"a", "b"}
None == "None"
NoTTL == <<>>
TTLs == (-1) .. MaxTTL
TTLArgs == {NoTTL} \cup {<<t>> : t \in TTLs}
NoKey == "-"
NoExc == "-"
KeyError == "KeyError"

VARIABLES
    _cache,        \* SimpleCache._cache: key -> [value, expires_at]
    _default_ttl,  \* SimpleCache._default_ttl
    now,           \* the reading of time.time()
    op,            \* the last cache operation called: [name, key, value, ttl]
    ret,           \* what that operation returned
    exc,           \* the exception it raised, NoExc when it returned
    pre,           \* _cache as it was when that operation was called
    lastSet,       \* history: key -> the value of the most recent set, or None
    pc,            \* thread -> the statement it is at
    expiration,    \* thread -> expiration_time, the local of its set call
    _db,           \* the database: key -> value
    lastStore,     \* history: the thread whose set assigned to _cache last
    _lock,         \* DatabaseSimulator._lock: the thread holding it, or None
    i,             \* writer -> i, the index of its loop in writer_thread
    reader_entry,  \* reader: entry, the local of its get call
    cached_val,    \* reader: cached_val
    true_val,      \* reader: true_val
    reads,         \* reader: the samples completed
    stale_count,   \* reader: stale_count
    db_prev,       \* history: what the store held before its latest write
    db_writes,     \* history: writer -> the store writes it has made
    cache_sets,    \* history: writer -> the cache sets it has made
    heap,          \* the dict objects held as cached values: id -> field -> value
    locals         \* thread -> the locals of its cache call: [entry, ret, exc, current]

cacheVars == <<_cache, _default_ttl, now, op, ret, exc, pre, lastSet>>
threadVars == <<pc, expiration, _db, lastStore>>
harnessVars == <<_lock, i, reader_entry, cached_val, true_val, reads, stale_count,
                 db_prev, db_writes, cache_sets>>
fieldVars == <<heap, locals>>

\* ------------------------------------------------ SimpleCache, as code
Outcome(c, r, e) == [cache |-> c, ret |-> r, exc |-> e]

\* a membership test that leaves out the expired entries
contains_unexpired(c, key) == key \in DOMAIN c /\ ~(now > c[key].expires_at)

\* key in self._cache
__contains__(c, key) == key \in DOMAIN c

\* a count that leaves out the expired entries
len_unexpired(c) == Cardinality({k \in DOMAIN c : ~(now > c[k].expires_at)})

\* len(self._cache)
__len__(c) == Cardinality(DOMAIN c)

\* an assignment that keeps the entry in place when it expires later
SetItem_unless_later(c, key, entry) ==
    IF key \in DOMAIN c /\ c[key].expires_at > entry.expires_at
    THEN c
    ELSE [x \in DOMAIN c \cup {key} |-> IF x = key THEN entry ELSE c[x]]

\* setdefault: the entry is assigned only when the key is not in the dict
SetItem_if_absent(c, key, entry) ==
    IF key \in DOMAIN c
    THEN c
    ELSE [x \in DOMAIN c \cup {key} |-> IF x = key THEN entry ELSE c[x]]

\* self._cache[key] = entry
SetItem(c, key, entry) ==
    [x \in DOMAIN c \cup {key} |-> IF x = key THEN entry ELSE c[x]]

\* del self._cache[key]: KeyError when the key is not in the dict
DelItem(c, key) ==
    IF key \in DOMAIN c
    THEN Outcome([x \in DOMAIN c \ {key} |-> c[x]], None, NoExc)
    ELSE Outcome(c, None, KeyError)

\* time.time() + (ttl or self._default_ttl): a ttl of 0 counts as not given
expiration_time_or_default(t, dft, ttl) ==
    t + (IF ttl # NoTTL /\ ttl[1] # 0 THEN ttl[1] ELSE dft)

\* time.time() + (ttl if ttl is not None else self._default_ttl)
expiration_time(t, dft, ttl) == t + (IF ttl # NoTTL THEN ttl[1] ELSE dft)

set(c, dft, t, key, value, ttl) ==
    Outcome(SetItem(c, key, [value |-> value,
                             expires_at |-> expiration_time(t, dft, ttl)]),
            None, NoExc)

\* time.time() >= entry["expires_at"]
is_expired_at_boundary(t, entry) == t >= entry.expires_at

\* time.time() < entry["expires_at"]
is_expired_flipped(t, entry) == t < entry.expires_at

\* time.time() > entry["expires_at"]
is_expired(t, entry) == t > entry.expires_at

\* a get that reports an expired entry as a miss and leaves it in place
get_without_purge(c, t, key) ==
    IF ~__contains__(c, key)
    THEN Outcome(c, None, NoExc)
    ELSE IF is_expired(t, c[key])
         THEN Outcome(c, None, NoExc)
         ELSE Outcome(c, c[key].value, NoExc)

\* a get that sweeps: on an expired key it removes every expired entry
get_sweeping(c, t, key) ==
    IF ~__contains__(c, key)
    THEN Outcome(c, None, NoExc)
    ELSE IF is_expired(t, c[key])
         THEN Outcome([x \in {k \in DOMAIN c : ~is_expired(t, c[k])} |-> c[x]],
                      None, NoExc)
         ELSE Outcome(c, c[key].value, NoExc)

get(c, t, key) ==
    IF ~__contains__(c, key)
    THEN Outcome(c, None, NoExc)
    ELSE LET entry == c[key] IN
         IF is_expired(t, entry)
         THEN LET d == DelItem(c, key) IN Outcome(d.cache, None, d.exc)
         ELSE Outcome(c, entry.value, NoExc)

\* a delete with no membership test before the del
delete_unguarded(c, key) ==
    LET d == DelItem(c, key) IN
    Outcome(d.cache, IF d.exc = NoExc THEN TRUE ELSE None, d.exc)

\* a delete that removes, and reports, live entries only
delete_live_only(c, key) ==
    IF __contains__(c, key) /\ ~is_expired(now, c[key])
    THEN Outcome([x \in DOMAIN c \ {key} |-> c[x]], TRUE, NoExc)
    ELSE Outcome(c, FALSE, NoExc)

delete(c, key) ==
    IF __contains__(c, key)
    THEN LET d == DelItem(c, key) IN
         Outcome(d.cache, IF d.exc = NoExc THEN TRUE ELSE None, d.exc)
    ELSE Outcome(c, FALSE, NoExc)

\* a clear that removes the expired entries only
clear_expired_only(c) ==
    Outcome([x \in {k \in DOMAIN c : ~is_expired(now, c[k])} |-> c[x]], None, NoExc)

clear(c) == Outcome([x \in {} |-> None], None, NoExc)

\* self._db[key] = value, DatabaseSimulator's dict; in concurrent_writes.py
\* the write that simulate_database_write reports
db_set(d, key, value) ==
    [x \in DOMAIN d \cup {key} |-> IF x = key THEN value ELSE d[x]]

\* ------------------------------------------- one cache, called in turn
Call(name, key, value, ttl) ==
    [name |-> name, key |-> key, value |-> value, ttl |-> ttl]

EmptyDict == [x \in {} |-> None]

\* the local entry of a get call that has not read one yet
NoEntry == [value |-> None, expires_at |-> 0]

\* no thread is running: the cache is called from one place
NoThreads ==
    /\ pc = EmptyDict
    /\ expiration = EmptyDict
    /\ _db = EmptyDict
    /\ lastStore = None

\* measure_staleness.py is not running
NoHarness ==
    /\ _lock = None
    /\ i = EmptyDict
    /\ reader_entry = NoEntry
    /\ cached_val = None
    /\ true_val = None
    /\ reads = 0
    /\ stale_count = 0
    /\ db_prev = None
    /\ db_writes = EmptyDict
    /\ cache_sets = EmptyDict

\* no cached value is a dict object and no cache call is under way in a thread
NoFields ==
    /\ heap = EmptyDict
    /\ locals = EmptyDict

Init ==
    /\ _cache = [x \in {} |-> None]
    /\ _default_ttl \in TTLs
    /\ now = 0
    /\ op = Call("init", NoKey, None, NoTTL)
    /\ ret = None
    /\ exc = NoExc
    /\ pre = [x \in {} |-> None]
    /\ lastSet = [k \in Keys |-> None]
    /\ NoThreads
    /\ NoHarness
    /\ NoFields

Done(call, r) ==
    /\ op' = call
    /\ pre' = _cache
    /\ _cache' = r.cache
    /\ ret' = r.ret
    /\ exc' = r.exc
    /\ UNCHANGED <<_default_ttl, now>>
    /\ UNCHANGED <<threadVars, harnessVars>>
    /\ UNCHANGED fieldVars

Set ==
    \E key \in Keys, value \in Values, ttl \in TTLArgs :
        /\ Done(Call("set", key, value, ttl),
                set(_cache, _default_ttl, now, key, value, ttl))
        /\ lastSet' = [lastSet EXCEPT ![key] = value]

Get ==
    \E key \in Keys :
        /\ Done(Call("get", key, None, NoTTL), get(_cache, now, key))
        /\ UNCHANGED lastSet

Delete ==
    \E key \in Keys :
        /\ Done(Call("delete", key, None, NoTTL), delete(_cache, key))
        /\ UNCHANGED lastSet

Clear ==
    /\ Done(Call("clear", NoKey, None, NoTTL), clear(_cache))
    /\ UNCHANGED lastSet

Size ==
    /\ Done(Call("len", NoKey, None, NoTTL),
            Outcome(_cache, __len__(_cache), NoExc))
    /\ UNCHANGED lastSet

Contains ==
    \E key \in Keys :
        /\ Done(Call("contains", key, None, NoTTL),
                Outcome(_cache, __contains__(_cache, key), NoExc))
        /\ UNCHANGED lastSet

\* time passes between two calls
Tick ==
    /\ now < MaxTime
    /\ now' = now + 1
    /\ op' = Call("tick", NoKey, None, NoTTL)
    /\ pre' = _cache
    /\ ret' = None
    /\ exc' = NoExc
    /\ UNCHANGED <<_cache, _default_ttl, lastSet>>
    /\ UNCHANGED <<threadVars, harnessVars>>
    /\ UNCHANGED fieldVars

Next == Set \/ Get \/ Delete \/ Clear \/ Size \/ Contains \/ Tick

vars == <<cacheVars, threadVars, harnessVars, fieldVars>>

Spec == Init /\ [][Next]_vars

\* ------------------------------- concurrent_writes.py, scenario 1
\* Two threads run update_with_cache on one key of one shared SimpleCache.
\* A set call is two steps of its thread: it reads the clock into
\* expiration_time, then assigns the finished entry to the mapping; other
\* threads and the clock may move in between.
RaceKey == "user:123:status"
RaceThreads == {"Thread-1", "Thread-2"}
Main == "main"
value_of == [t \in RaceThreads \cup {Main} |->
                CASE t = "Thread-1" -> "online"
                  [] t = "Thread-2" -> "away"
                  [] OTHER -> "offline"]

RaceInit ==
    /\ _cache = EmptyDict
    /\ _default_ttl = DemoTTL
    /\ now = 0
    /\ op = Call("init", NoKey, None, NoTTL)
    /\ ret = None
    /\ exc = NoExc
    /\ pre = EmptyDict
    /\ lastSet = [k \in {RaceKey} |-> None]
    /\ pc = [t \in RaceThreads \cup {Main} |->
                IF t = Main THEN "set_initial" ELSE "unstarted"]
    /\ expiration = [t \in RaceThreads \cup {Main} |-> 0]
    /\ _db = EmptyDict
    /\ lastStore = None
    /\ NoHarness
    /\ NoFields

Goto(t, label) == pc' = [pc EXCEPT ![t] = label]

\* cache.set("user:123:status", "offline"), before any thread is started
MainSetInitial ==
    /\ pc[Main] = "set_initial"
    /\ LET r == set(_cache, _default_ttl, now, RaceKey, value_of[Main], NoTTL) IN
       /\ _cache' = r.cache
       /\ expiration' = [expiration EXCEPT ![Main] = r.cache[RaceKey].expires_at]
    /\ lastStore' = Main
    /\ lastSet' = [lastSet EXCEPT ![RaceKey] = value_of[Main]]
    /\ Goto(Main, "get_initial")
    /\ UNCHANGED <<_default_ttl, now, op, ret, exc, pre, _db>>
    /\ UNCHANGED harnessVars
    /\ UNCHANGED fieldVars

\* cache.get('user:123:status'), for the two printed states
MainGet(from, to) ==
    /\ pc[Main] = from
    /\ from = "final_get" => \A t \in RaceThreads : pc[t] = "done"
    /\ LET r == get(_cache, now, RaceKey) IN
       /\ _cache' = r.cache
       /\ ret' = r.ret
       /\ exc' = r.exc
    /\ Goto(Main, to)
    /\ UNCHANGED <<_default_ttl, now, op, pre, lastSet, expiration, _db, lastStore>>
    /\ UNCHANGED harnessVars
    /\ UNCHANGED fieldVars

MainGetInitial == MainGet("get_initial", "start_1")

\* thread1.start(); time.sleep(0.05); thread2.start()
MainStart(from, t, to) ==
    /\ pc[Main] = from
    /\ pc' = [pc EXCEPT ![Main] = to, ![t] = "db_write"]
    /\ UNCHANGED <<cacheVars, expiration, _db, lastStore>>
    /\ UNCHANGED harnessVars
    /\ UNCHANGED fieldVars

MainStart1 == MainStart("start_1", "Thread-1", "start_2")

MainStart2 == MainStart("start_2", "Thread-2", "final_get")

\* thread1.join(); thread2.join(); cache.get('user:123:status')
MainGetFinal == MainGet("final_get", "end")

\* simulate_database_write: the sleep is over and the write is reported
simulate_database_write(t) ==
    /\ pc[t] = "db_write"
    /\ _db' = db_set(_db, RaceKey, value_of[t])
    /\ Goto(t, "set_time")
    /\ UNCHANGED <<cacheVars, expiration, lastStore>>
    /\ UNCHANGED harnessVars
    /\ UNCHANGED fieldVars

\* cache.set, first half: expiration_time = time.time() + default_ttl
set_time(t) ==
    /\ pc[t] = "set_time"
    /\ expiration' = [expiration EXCEPT ![t] = expiration_time(now, _default_ttl, NoTTL)]
    /\ Goto(t, "set_store")
    /\ UNCHANGED <<cacheVars, _db, lastStore>>
    /\ UNCHANGED harnessVars
    /\ UNCHANGED fieldVars

\* cache.set, second half: self._cache[key] = {value, expires_at}
set_store(t) ==
    /\ pc[t] = "set_store"
    /\ _cache' = SetItem(_cache, RaceKey,
                         [value |-> value_of[t], expires_at |-> expiration[t]])
    /\ lastStore' = t
    /\ lastSet' = [lastSet EXCEPT ![RaceKey] = value_of[t]]
    /\ Goto(t, "done")
    /\ UNCHANGED <<_default_ttl, now, op, ret, exc, pre, expiration, _db>>
    /\ UNCHANGED harnessVars
    /\ UNCHANGED fieldVars

update_with_cache ==
    \E t \in RaceThreads :
        simulate_database_write(t) \/ set_time(t) \/ set_store(t)

RaceTick ==
    /\ now < MaxTime
    /\ now' = now + 1
    /\ UNCHANGED <<_cache, _default_ttl, op, ret, exc, pre, lastSet>>
    /\ UNCHANGED <<threadVars, harnessVars>>
    /\ UNCHANGED fieldVars

RaceNext ==
    \/ MainSetInitial
    \/ MainGetInitial
    \/ MainStart1
    \/ MainStart2
    \/ MainGetFinal
    \/ update_with_cache
    \/ RaceTick

SpecRace == RaceInit /\ [][RaceNext]_vars

\* ------------------------------------ a cache call inside a thread
\* A thread's get, delete or clear on a shared SimpleCache, taken apart at
\* the points where another thread can run: between the membership test and
\* the subscript, between the subscript and the expiry test, between the
\* expiry test and the del. locals[t] holds the call's entry, what it
\* returned (ret) and what it raised (exc); a thread that raises is at
\* "raised" and has ended.
NoLocals == [entry |-> NoEntry, ret |-> None, exc |-> NoExc, current |-> None]

ThreadKeeps == UNCHANGED <<_default_ttl, now, op, ret, exc, pre, lastSet,
                           expiration, _db, lastStore, harnessVars, heap>>

\* thread t returns r from its call and goes on at label after
Return(t, r, after) ==
    /\ locals' = [locals EXCEPT ![t].ret = r]
    /\ Goto(t, after)

\* thread t's call raises e
Raise(t, e) ==
    /\ locals' = [locals EXCEPT ![t].exc = e]
    /\ Goto(t, "raised")

\* get: if not self.__contains__(key): return None
thread_get_contains(t, key, after) ==
    /\ pc[t] = "get_contains"
    /\ IF __contains__(_cache, key)
       THEN Goto(t, "get_entry") /\ UNCHANGED locals
       ELSE Return(t, None, after)
    /\ UNCHANGED _cache
    /\ ThreadKeeps

\* get: entry = self._cache[key]
thread_get_entry(t, key) ==
    /\ pc[t] = "get_entry"
    /\ IF key \in DOMAIN _cache
       THEN /\ locals' = [locals EXCEPT ![t].entry = _cache[key]]
            /\ Goto(t, "get_check")
       ELSE Raise(t, KeyError)
    /\ UNCHANGED _cache
    /\ ThreadKeeps

\* get: if time.time() > entry["expires_at"], else return entry["value"]
thread_get_check(t, after) ==
    /\ pc[t] = "get_check"
    /\ IF is_expired(now, locals[t].entry)
       THEN Goto(t, "get_del") /\ UNCHANGED locals
       ELSE Return(t, locals[t].entry.value, after)
    /\ UNCHANGED _cache
    /\ ThreadKeeps

\* get: del self._cache[key]; return None
thread_get_del(t, key, after) ==
    /\ pc[t] = "get_del"
    /\ LET d == DelItem(_cache, key) IN
       /\ _cache' = d.cache
       /\ IF d.exc = NoExc THEN Return(t, None, after) ELSE Raise(t, d.exc)
    /\ ThreadKeeps

\* delete: if self.__contains__(key), else return False
thread_delete_contains(t, key, after) ==
    /\ pc[t] = "delete_contains"
    /\ IF __contains__(_cache, key)
       THEN Goto(t, "delete_del") /\ UNCHANGED locals
       ELSE Return(t, FALSE, after)
    /\ UNCHANGED _cache
    /\ ThreadKeeps

\* delete: del self._cache[key]; return True
thread_delete_del(t, key, after) ==
    /\ pc[t] = "delete_del"
    /\ LET d == DelItem(_cache, key) IN
       /\ _cache' = d.cache
       /\ IF d.exc = NoExc THEN Return(t, TRUE, after) ELSE Raise(t, d.exc)
    /\ ThreadKeeps

\* clear: self._cache.clear()
thread_clear(t, after) ==
    /\ pc[t] = "clear"
    /\ _cache' = clear(_cache).cache
    /\ Return(t, None, after)
    /\ ThreadKeeps

\* --------------------------- one cache shared by tasks, no coordination
\* Each task makes one call, get, delete or clear, on the one key of a
\* cache in which the key has been set; op[t] is the call of task t.
OpsKey == "k1"
Tasks == {"task-1", "task-2", "task-3"}
OpNames == {"get", "delete", "clear"}

\* the first statement of a call
Entry(name) ==
    CASE name = "get" -> "get_contains"
      [] name = "delete" -> "delete_contains"
      [] name = "clear" -> "clear"

OpsInit ==
    /\ _default_ttl \in TTLs
    /\ now = 0
    /\ \E v \in Values :
          /\ _cache = set(EmptyDict, _default_ttl, now, OpsKey, v, NoTTL).cache
          /\ lastSet = [k \in {OpsKey} |-> v]
    /\ op \in [Tasks -> {Call(n, OpsKey, None, NoTTL) : n \in OpNames}]
    /\ pc = [t \in Tasks |-> Entry(op[t].name)]
    /\ locals = [t \in Tasks |-> NoLocals]
    /\ ret = None
    /\ exc = NoExc
    /\ pre = _cache
    /\ expiration = EmptyDict
    /\ _db = EmptyDict
    /\ lastStore = None
    /\ heap = EmptyDict
    /\ NoHarness

task_get(t) ==
    \/ thread_get_contains(t, OpsKey, "done")
    \/ thread_get_entry(t, OpsKey)
    \/ thread_get_check(t, "done")
    \/ thread_get_del(t, OpsKey, "done")

task_delete(t) ==
    \/ thread_delete_contains(t, OpsKey, "done")
    \/ thread_delete_del(t, OpsKey, "done")

task_clear(t) == thread_clear(t, "done")

OpsTick ==
    /\ now < MaxTime
    /\ now' = now + 1
    /\ UNCHANGED <<_cache, _default_ttl, op, ret, exc, pre, lastSet>>
    /\ UNCHANGED <<threadVars, harnessVars, fieldVars>>

OpsNext ==
    \/ \E t \in Tasks : task_get(t)
    \/ \E t \in Tasks : task_delete(t)
    \/ \E t \in Tasks : task_clear(t)
    \/ OpsTick

SpecOps == OpsInit /\ [][OpsNext]_vars

\* ------------------------------- concurrent_writes.py, scenario 2
\* Three threads run update_user_field on the entity cached under one key.
\* The cached value is a dict object: the mapping holds its id, get returns
\* the id, and heap holds the fields of every dict object.
FieldKey == "user:456"
user_data == "user_data"
FieldThreads == {"Email-Thread", "Age-Thread", "Name-Thread"}

\* {"name": "Alice", "email": "alice@old.com", "age": 25}
InitialUser == [f \in {"name", "email", "age"} |->
                   CASE f = "name" -> "Alice"
                     [] f = "email" -> "alice@old.com"
                     [] f = "age" -> "25"]

\* the field and the value in the args of each thread
field_of == [t \in FieldThreads |->
                CASE t = "Email-Thread" -> "email"
                  [] t = "Age-Thread" -> "age"
                  [] t = "Name-Thread" -> "name"]

field_value == [t \in FieldThreads |->
                   CASE t = "Email-Thread" -> "alice@new.com"
                     [] t = "Age-Thread" -> "26"
                     [] t = "Name-Thread" -> "Alice Smith"]

\* cache.set("user:456", user_data) is done; the main thread is about to
\* print the initial state
FieldsInit ==
    /\ _default_ttl = DemoTTL
    /\ now = 0
    /\ _cache = set(EmptyDict, _default_ttl, now, FieldKey, user_data, NoTTL).cache
    /\ heap = [o \in {user_data} |-> InitialUser]
    /\ op = Call("init", NoKey, None, NoTTL)
    /\ ret = None
    /\ exc = NoExc
    /\ pre = EmptyDict
    /\ lastSet = [k \in {FieldKey} |-> user_data]
    /\ pc = [t \in FieldThreads \cup {Main} |->
                IF t = Main THEN "get_initial" ELSE "unstarted"]
    /\ locals = [t \in FieldThreads |-> NoLocals]
    /\ expiration = [t \in FieldThreads |-> 0]
    /\ _db = EmptyDict
    /\ lastStore = Main
    /\ NoHarness

\* cache.get('user:456') of the main thread, for the two printed states;
\* the last one comes after every thread is joined
FieldsGet(from, to) ==
    /\ pc[Main] = from
    /\ from = "final_get" => \A t \in FieldThreads : pc[t] \in {"done", "raised"}
    /\ LET r == get(_cache, now, FieldKey) IN
       /\ _cache' = r.cache
       /\ ret' = r.ret
       /\ exc' = r.exc
    /\ Goto(Main, to)
    /\ UNCHANGED <<_default_ttl, now, op, pre, lastSet, expiration, _db, lastStore>>
    /\ UNCHANGED <<harnessVars, fieldVars>>

FieldsGetInitial == FieldsGet("get_initial", "start_1")

FieldsGetFinal == FieldsGet("final_get", "end")

\* for t in threads: t.start(); a started thread sleeps and then calls get
FieldsStart(from, t, to) ==
    /\ pc[Main] = from
    /\ pc' = [pc EXCEPT ![Main] = to, ![t] = "get_contains"]
    /\ UNCHANGED <<cacheVars, expiration, _db, lastStore>>
    /\ UNCHANGED <<harnessVars, fieldVars>>

FieldsStartAll ==
    \/ FieldsStart("start_1", "Email-Thread", "start_2")
    \/ FieldsStart("start_2", "Age-Thread", "start_3")
    \/ FieldsStart("start_3", "Name-Thread", "final_get")

\* cache.get("user:456") of update_user_field
field_get(t) ==
    \/ thread_get_contains(t, FieldKey, "assign")
    \/ thread_get_entry(t, FieldKey)
    \/ thread_get_check(t, "assign")
    \/ thread_get_del(t, FieldKey, "assign")

\* the value x is falsy: None, or a dict with no field
Falsy(x) == x = None \/ heap[x] = EmptyDict

\* every thread works on a copy of the dict that get returned
assign_field_on_copy(t) ==
    /\ pc[t] = "assign"
    /\ LET old == IF Falsy(locals[t].ret) THEN EmptyDict ELSE heap[locals[t].ret] IN
       /\ heap' = db_set(heap, t, db_set(old, field_of[t], field_value[t]))
       /\ locals' = [locals EXCEPT ![t].current = t]
    /\ Goto(t, "set_time")
    /\ UNCHANGED <<cacheVars, expiration, _db, lastStore, harnessVars>>

\* current = cache.get("user:456") or {}; current[field] = value: current
\* is the dict object that get returned, the one the mapping holds, or a
\* new dict (its id is the thread's name) when get returned nothing
assign_field(t) ==
    /\ pc[t] = "assign"
    /\ LET current == IF Falsy(locals[t].ret) THEN t ELSE locals[t].ret
           old == IF current \in DOMAIN heap THEN heap[current] ELSE EmptyDict
       IN
       /\ heap' = db_set(heap, current, db_set(old, field_of[t], field_value[t]))
       /\ locals' = [locals EXCEPT ![t].current = current]
    /\ Goto(t, "set_time")
    /\ UNCHANGED <<cacheVars, expiration, _db, lastStore, harnessVars>>

\* cache.set("user:456", current), first half: the clock is read
field_set_time(t) ==
    /\ pc[t] = "set_time"
    /\ expiration' = [expiration EXCEPT ![t] = expiration_time(now, _default_ttl, NoTTL)]
    /\ Goto(t, "set_store")
    /\ UNCHANGED <<cacheVars, _db, lastStore, harnessVars, fieldVars>>

\* cache.set("user:456", current), second half: the entry is assigned
field_set_store(t) ==
    /\ pc[t] = "set_store"
    /\ _cache' = SetItem(_cache, FieldKey,
                         [value |-> locals[t].current, expires_at |-> expiration[t]])
    /\ lastStore' = t
    /\ lastSet' = [lastSet EXCEPT ![FieldKey] = locals[t].current]
    /\ Goto(t, "done")
    /\ UNCHANGED <<_default_ttl, now, op, ret, exc, pre, expiration, _db>>
    /\ UNCHANGED <<harnessVars, fieldVars>>

update_user_field ==
    \E t \in FieldThreads :
        \/ field_get(t)
        \/ assign_field(t)
        \/ field_set_time(t)
        \/ field_set_store(t)

FieldsTick ==
    /\ now < MaxTime
    /\ now' = now + 1
    /\ UNCHANGED <<_cache, _default_ttl, op, ret, exc, pre, lastSet>>
    /\ UNCHANGED <<threadVars, harnessVars, fieldVars>>

FieldsNext ==
    \/ FieldsGetInitial
    \/ FieldsStartAll
    \/ FieldsGetFinal
    \/ update_user_field
    \/ FieldsTick

SpecFields == FieldsInit /\ [][FieldsNext]_vars

\* -------------------------------------------- measure_staleness.py
\* Writer threads run writer_thread on one key of one DatabaseSimulator and
\* one SimpleCache while the main thread samples both. A time.sleep is a
\* stretch in which the thread takes no step; Tick steps and the steps of
\* the other threads may fall anywhere. The cache calls are taken apart into
\* the steps between which another thread can run.
NumUpdates == 3
TotalReads == 3
HKey == "user:1:profile"
Reader == "main"

\* the demos: the writer threads and the value both stores start with
\* (measure_staleness_multiple_writers starts with the integer 0)
measure_staleness_basic == [writers |-> {"writer-1"}, initial |-> "version_0"]
measure_staleness_with_varying_delays == [writers |-> {"writer-1"}, initial |-> "v0"]
measure_staleness_multiple_writers ==
    [writers |-> {"writer-1", "writer-2"}, initial |-> "0"]

\* f"version_{i}"
new_value(n) == "version_" \o ToString(n)

\* the cache is set first and the store written second
writer_thread_next_cache_first(label) ==
    CASE label = "start" -> "set_time"
      [] label = "set_time" -> "set_store"
      [] label = "set_store" -> "db_write"
      [] label = "db_write" -> "db_locked"
      [] label = "db_locked" -> "loop"

\* the statement a writer is at after the one at label, in the loop body of
\* writer_thread: from its start, db.write (take the lock, assign), then
\* cache.set (read the clock, assign); "loop" ends the body
writer_thread_next(label) ==
    CASE label = "start" -> "db_write"
      [] label = "db_write" -> "db_locked"
      [] label = "db_locked" -> "set_time"
      [] label = "set_time" -> "set_store"
      [] label = "set_store" -> "loop"

\* db.set_initial(key, initial); cache.set(key, initial); the writers are
\* started and the main thread is about to take its first sample
Started(sc) ==
    /\ _default_ttl = DemoTTL
    /\ now = 0
    /\ _db = db_set(EmptyDict, HKey, sc.initial)
    /\ _cache = set(EmptyDict, _default_ttl, now, HKey, sc.initial, NoTTL).cache
    /\ op = Call("init", NoKey, None, NoTTL)
    /\ ret = None
    /\ exc = NoExc
    /\ pre = EmptyDict
    /\ lastSet = [k \in {HKey} |-> sc.initial]
    /\ pc = [t \in sc.writers \cup {Reader} |->
                IF t = Reader THEN "get_contains" ELSE writer_thread_next("start")]
    /\ expiration = [t \in sc.writers |-> 0]
    /\ lastStore = Reader
    /\ _lock = None
    /\ i = [t \in sc.writers |-> 0]
    /\ reader_entry = NoEntry
    /\ cached_val = None
    /\ true_val = None
    /\ reads = 0
    /\ stale_count = 0
    /\ db_prev = sc.initial
    /\ db_writes = [t \in sc.writers |-> 0]
    /\ cache_sets = [t \in sc.writers |-> 0]
    /\ NoFields

\* the demos with one writer
HarnessInit ==
    \E sc \in {measure_staleness_basic, measure_staleness_with_varying_delays} :
        Started(sc)

Writers == DOMAIN i

\* the demo with several writers, scaled down further
MultiUpdates == 1
MultiReads == 1

\* num_updates, the argument of writer_thread, and total_reads, per demo
num_updates == IF Cardinality(Writers) > 1 THEN MultiUpdates ELSE NumUpdates

total_reads == IF Cardinality(Writers) > 1 THEN MultiReads ELSE TotalReads

\* the writer moves on from the statement at its label; at the end of the
\* loop body it takes the next i, or returns after the last
Advance(w) ==
    LET nxt == writer_thread_next(pc[w]) IN
    IF nxt # "loop"
    THEN /\ Goto(w, nxt)
         /\ UNCHANGED i
    ELSE /\ i' = [i EXCEPT ![w] = i[w] + 1]
         /\ Goto(w, IF i[w] + 1 < num_updates
                    THEN writer_thread_next("start") ELSE "done")

\* the critical section is entered whether or not the lock is free
db_write_without_lock(w) ==
    /\ pc[w] = "db_write"
    /\ _lock' = w
    /\ Advance(w)
    /\ UNCHANGED <<cacheVars, expiration, _db, lastStore>>
    /\ UNCHANGED <<reader_entry, cached_val, true_val, reads, stale_count,
                   db_prev, db_writes, cache_sets>>
    /\ UNCHANGED fieldVars

\* DatabaseSimulator.write: the sleep is over, with self._lock:
db_write(w) ==
    /\ pc[w] = "db_write"
    /\ _lock = None
    /\ _lock' = w
    /\ Advance(w)
    /\ UNCHANGED <<cacheVars, expiration, _db, lastStore>>
    /\ UNCHANGED <<reader_entry, cached_val, true_val, reads, stale_count,
                   db_prev, db_writes, cache_sets>>
    /\ UNCHANGED fieldVars

\* the assignment is made and the lock is never released
db_locked_keeps_lock(w) ==
    /\ pc[w] = "db_locked"
    /\ _db' = db_set(_db, HKey, new_value(i[w]))
    /\ db_prev' = _db[HKey]
    /\ db_writes' = [db_writes EXCEPT ![w] = db_writes[w] + 1]
    /\ Advance(w)
    /\ UNCHANGED <<cacheVars, expiration, lastStore>>
    /\ UNCHANGED <<_lock, reader_entry, cached_val, true_val, reads, stale_count,
                   cache_sets>>
    /\ UNCHANGED fieldVars

\* DatabaseSimulator.write: self._db[key] = value, and the lock is released
db_locked(w) ==
    /\ pc[w] = "db_locked"
    /\ _db' = db_set(_db, HKey, new_value(i[w]))
    /\ db_prev' = _db[HKey]
    /\ db_writes' = [db_writes EXCEPT ![w] = db_writes[w] + 1]
    /\ _lock' = IF _lock = w THEN None ELSE _lock
    /\ Advance(w)
    /\ UNCHANGED <<cacheVars, expiration, lastStore>>
    /\ UNCHANGED <<reader_entry, cached_val, true_val, reads, stale_count,
                   cache_sets>>
    /\ UNCHANGED fieldVars

\* cache.set(key, new_value), first half: the clock is read
writer_set_time(w) ==
    /\ pc[w] = "set_time"
    /\ expiration' = [expiration EXCEPT ![w] = expiration_time(now, _default_ttl, NoTTL)]
    /\ Advance(w)
    /\ UNCHANGED <<cacheVars, _db, lastStore, harnessVars>>
    /\ UNCHANGED fieldVars

\* cache.set(key, new_value), second half: the entry is assigned
writer_set_store(w) ==
    /\ pc[w] = "set_store"
    /\ _cache' = SetItem(_cache, HKey,
                         [value |-> new_value(i[w]), expires_at |-> expiration[w]])
    /\ lastStore' = w
    /\ lastSet' = [lastSet EXCEPT ![HKey] = new_value(i[w])]
    /\ cache_sets' = [cache_sets EXCEPT ![w] = cache_sets[w] + 1]
    /\ Advance(w)
    /\ UNCHANGED <<_default_ttl, now, op, ret, exc, pre, expiration, _db>>
    /\ UNCHANGED <<_lock, reader_entry, cached_val, true_val, reads,
                   stale_count, db_prev, db_writes>>
    /\ UNCHANGED fieldVars

writer_thread ==
    \E w \in Writers :
        \/ db_write(w)
        \/ db_locked(w)
        \/ writer_set_time(w)
        \/ writer_set_store(w)

ReaderKeeps == UNCHANGED <<_default_ttl, now, op, pre, lastSet, expiration,
                           _db, lastStore, _lock, i, true_val, reads,
                           stale_count, db_prev, db_writes, cache_sets,
                           heap, locals>>

\* cache.get(key): if not self.__contains__(key): return None
get_contains ==
    /\ pc[Reader] = "get_contains"
    /\ reads < total_reads
    /\ IF __contains__(_cache, HKey)
       THEN /\ Goto(Reader, "get_entry")
            /\ UNCHANGED <<cached_val, ret>>
       ELSE /\ Goto(Reader, "db_read")
            /\ cached_val' = None
            /\ ret' = None
    /\ UNCHANGED <<_cache, exc, reader_entry>>
    /\ ReaderKeeps

\* cache.get(key): entry = self._cache[key]
get_entry ==
    /\ pc[Reader] = "get_entry"
    /\ IF HKey \in DOMAIN _cache
       THEN /\ reader_entry' = _cache[HKey]
            /\ Goto(Reader, "get_check")
            /\ UNCHANGED exc
       ELSE /\ exc' = KeyError
            /\ Goto(Reader, "raised")
            /\ UNCHANGED reader_entry
    /\ UNCHANGED <<_cache, cached_val, ret>>
    /\ ReaderKeeps

\* cache.get(key): if time.time() > entry["expires_at"], else return the value
get_check ==
    /\ pc[Reader] = "get_check"
    /\ IF is_expired(now, reader_entry)
       THEN /\ Goto(Reader, "get_del")
            /\ UNCHANGED <<cached_val, ret>>
       ELSE /\ Goto(Reader, "db_read")
            /\ cached_val' = reader_entry.value
            /\ ret' = reader_entry.value
    /\ UNCHANGED <<_cache, exc, reader_entry>>
    /\ ReaderKeeps

\* cache.get(key): del self._cache[key]; return None
get_del ==
    /\ pc[Reader] = "get_del"
    /\ LET d == DelItem(_cache, HKey) IN
       /\ _cache' = d.cache
       /\ exc' = d.exc
       /\ IF d.exc = NoExc
          THEN /\ Goto(Reader, "db_read")
               /\ cached_val' = None
               /\ ret' = None
          ELSE /\ Goto(Reader, "raised")
               /\ UNCHANGED <<cached_val, ret>>
    /\ UNCHANGED reader_entry
    /\ ReaderKeeps

\* DatabaseSimulator.read: with self._lock:
db_read ==
    /\ pc[Reader] = "db_read"
    /\ _lock = None
    /\ _lock' = Reader
    /\ Goto(Reader, "db_read_locked")
    /\ UNCHANGED <<cacheVars, expiration, _db, lastStore>>
    /\ UNCHANGED <<i, reader_entry, cached_val, true_val, reads, stale_count,
                   db_prev, db_writes, cache_sets>>
    /\ UNCHANGED fieldVars

\* the value of self._db.get(key)
db_get(d, key) == IF key \in DOMAIN d THEN d[key] ELSE None

\* stale_count is a flag: set to 1 on a mismatch, never added to
db_read_locked_stale_flag ==
    /\ pc[Reader] = "db_read_locked"
    /\ true_val' = db_get(_db, HKey)
    /\ _lock' = IF _lock = Reader THEN None ELSE _lock
    /\ stale_count' = IF cached_val # true_val' THEN 1 ELSE stale_count
    /\ reads' = reads + 1
    /\ Goto(Reader, IF reads + 1 < total_reads THEN "get_contains" ELSE "join")
    /\ UNCHANGED <<cacheVars, expiration, _db, lastStore>>
    /\ UNCHANGED <<i, reader_entry, cached_val, db_prev, db_writes, cache_sets>>
    /\ UNCHANGED fieldVars

\* a cache miss is not counted as a mismatch
db_read_locked_miss_is_fresh ==
    /\ pc[Reader] = "db_read_locked"
    /\ true_val' = db_get(_db, HKey)
    /\ _lock' = IF _lock = Reader THEN None ELSE _lock
    /\ stale_count' = IF cached_val # None /\ cached_val # true_val'
                      THEN stale_count + 1 ELSE stale_count
    /\ reads' = reads + 1
    /\ Goto(Reader, IF reads + 1 < total_reads THEN "get_contains" ELSE "join")
    /\ UNCHANGED <<cacheVars, expiration, _db, lastStore>>
    /\ UNCHANGED <<i, reader_entry, cached_val, db_prev, db_writes, cache_sets>>
    /\ UNCHANGED fieldVars

\* DatabaseSimulator.read: return self._db.get(key), and the lock is
\* released; then the sample is compared and counted
db_read_locked ==
    /\ pc[Reader] = "db_read_locked"
    /\ true_val' = db_get(_db, HKey)
    /\ _lock' = IF _lock = Reader THEN None ELSE _lock
    /\ stale_count' = IF cached_val # true_val' THEN stale_count + 1 ELSE stale_count
    /\ reads' = reads + 1
    /\ Goto(Reader, IF reads + 1 < total_reads THEN "get_contains" ELSE "join")
    /\ UNCHANGED <<cacheVars, expiration, _db, lastStore>>
    /\ UNCHANGED <<i, reader_entry, cached_val, db_prev, db_writes, cache_sets>>
    /\ UNCHANGED fieldVars

\* writer.join(), for every writer
join ==
    /\ pc[Reader] = "join"
    /\ \A w \in Writers : pc[w] = "done"
    /\ Goto(Reader, "end")
    /\ UNCHANGED <<cacheVars, expiration, _db, lastStore, harnessVars>>
    /\ UNCHANGED fieldVars

HarnessTick ==
    /\ now < MaxTime
    /\ now' = now + 1
    /\ UNCHANGED <<_cache, _default_ttl, op, ret, exc, pre, lastSet>>
    /\ UNCHANGED <<threadVars, harnessVars>>
    /\ UNCHANGED fieldVars

HarnessNext ==
    \/ writer_thread
    \/ get_contains
    \/ get_entry
    \/ get_check
    \/ get_del
    \/ db_read
    \/ db_read_locked
    \/ join
    \/ HarnessTick

SpecHarness == HarnessInit /\ [][HarnessNext]_vars

\* the demo with several writers
WritersInit == Started(measure_staleness_multiple_writers)

SpecWriters == WritersInit /\ [][HarnessNext]_vars

\* The threads are scheduled fairly: a thread whose next statement can run
\* (it is not waiting for the lock) does run it at some time; every
\* statement moves its thread's pc. The clock owes nothing.
WriterNames == measure_staleness_basic.writers
                   \cup measure_staleness_with_varying_delays.writers
                   \cup measure_staleness_multiple_writers.writers

WriterStep(w) ==
    /\ w \in Writers
    /\ db_write(w) \/ db_locked(w) \/ writer_set_time(w) \/ writer_set_store(w)

ReaderStep ==
    \/ get_contains
    \/ get_entry
    \/ get_check
    \/ get_del
    \/ db_read
    \/ db_read_locked
    \/ join

FairInit == HarnessInit \/ WritersInit

SpecFair ==
    /\ FairInit
    /\ [][HarnessNext]_vars
    /\ \A w \in WriterNames : WF_pc(WriterStep(w))
    /\ WF_pc(ReaderStep)

\* --------------------------------------------------- claims C1 .. C8
\* The ttl a set call asks for: its ttl argument when one is given, the
\* cache's default otherwise.
RequestedTTL(call) == IF call.ttl # NoTTL THEN call.ttl[1] ELSE _default_ttl

\* key is in mapping c and its expiry lies strictly before instant t
Expired(c, t, key) == key \in DOMAIN c /\ t > c[key].expires_at

Live(c, t, key) == key \in DOMAIN c /\ ~(t > c[key].expires_at)

Without(c, key) == [x \in DOMAIN c \ {key} |-> c[x]]

\* C1: get returns None for an absent key (mapping untouched) and for an
\* expired one (now > expires_at), whose entry it removes; otherwise it
\* returns the value of the most recent set on that key.
C1_GetNeverReturnsExpired ==
    op.name = "get" =>
        /\ exc = NoExc
        /\ IF op.key \notin DOMAIN pre
           THEN ret = None /\ _cache = pre
           ELSE IF now > pre[op.key].expires_at
                THEN ret = None /\ _cache = Without(pre, op.key)
                ELSE ret = lastSet[op.key] /\ _cache = pre

C1_Witness ==
    /\ op.name = "get"
    /\ Expired(pre, now, op.key)
    /\ ret = None
    /\ op.key \notin DOMAIN _cache
    /\ lastSet[op.key] \in Values

\* C2: right after set(key, value) with a requested ttl > 0, with no time
\* elapsed and nothing in between, get(key) returns value, whatever the
\* mapping held for key before.
C2_RoundTrip ==
    (op.name = "set" /\ RequestedTTL(op) > 0) =>
        LET g == get(_cache, now, op.key) IN
        /\ g.exc = NoExc
        /\ g.ret = op.value
        /\ g.cache = _cache

C2_Witness ==
    /\ op.name = "set"
    /\ RequestedTTL(op) > 0
    /\ Expired(pre, now, op.key)
    /\ pre[op.key].value # op.value
    /\ get(_cache, now, op.key).ret = op.value

\* C3 as stated: a key present with expires_at <= now, the boundary
\* now = expires_at included, is a miss for the next get, which removes it.
C3_Original ==
    (op.name = "get" /\ op.key \in DOMAIN pre /\ pre[op.key].expires_at <= now) =>
        /\ ret = None
        /\ op.key \notin DOMAIN _cache

\* C3, amended: a key present with expires_at < now is a miss for the next
\* get, which removes it; at the boundary now = expires_at the get is a hit:
\* it returns the stored value and leaves the entry in the mapping.
C3_ExpiryStrict ==
    (op.name = "get" /\ op.key \in DOMAIN pre) =>
        /\ pre[op.key].expires_at < now =>
               ret = None /\ op.key \notin DOMAIN _cache
        /\ pre[op.key].expires_at = now =>
               ret = pre[op.key].value /\ _cache = pre

C3_Witness ==
    /\ op.name = "get"
    /\ op.key \in DOMAIN pre
    /\ pre[op.key].expires_at = now
    /\ ret = pre[op.key].value
    /\ op.key \in DOMAIN _cache

\* C4: contains is a test on the raw mapping. A key whose ttl has elapsed
\* stays in the mapping, so contains stays true, through every step that is
\* not a get, set or delete of that key or a clear; the get of it returns
\* None and leaves contains false. contains and get disagree on a key
\* exactly when it is expired and not yet purged.
C4_ExpiredButUnpurged ==
    /\ \A k \in Keys :
           (__contains__(_cache, k) # (get(_cache, now, k).ret # None))
               <=> Expired(_cache, now, k)
    /\ op.name = "contains" =>
           exc = NoExc /\ ret = (op.key \in DOMAIN pre) /\ _cache = pre
    /\ \A k \in DOMAIN pre :
           (op.name \in {"tick", "len", "contains"} \/ op.key \notin {k, NoKey})
               => (__contains__(_cache, k) /\ _cache[k] = pre[k])
    /\ (op.name = "get" /\ Expired(pre, now, op.key)) =>
           ret = None /\ ~__contains__(_cache, op.key)

C4_Witness ==
    /\ op.name = "contains"
    /\ ret = TRUE
    /\ Expired(_cache, now, op.key)
    /\ get(_cache, now, op.key).ret = None
    /\ ~__contains__(get(_cache, now, op.key).cache, op.key)

\* C5: set stores value with expires_at = now + ttl when a ttl is given
\* (0 and negative ones included) and now + default_ttl only when none is;
\* the previous entry of the key is replaced whole, the other entries stay,
\* and a replace does not change the number of entries.
C5_SetStores ==
    op.name = "set" =>
        /\ exc = NoExc
        /\ DOMAIN _cache = DOMAIN pre \cup {op.key}
        /\ _cache[op.key] = [value |-> op.value,
                             expires_at |-> now + RequestedTTL(op)]
        /\ \A x \in DOMAIN pre \ {op.key} : _cache[x] = pre[x]
        /\ op.key \in DOMAIN pre => __len__(_cache) = __len__(pre)

C5_Witness ==
    /\ op.name = "set"
    /\ op.ttl = <<0>>
    /\ _default_ttl > 0
    /\ op.key \in DOMAIN pre
    /\ pre[op.key].value # op.value
    /\ pre[op.key].expires_at # now
    /\ _cache[op.key].expires_at = now

\* C6: delete returns true exactly when the key was in the mapping, live or
\* expired; afterwards the key is not in the mapping, get and contains of it
\* give None and false, and so does every later get, contains and delete of
\* a key not in the mapping, which only a set of that key puts back.
C6_Delete ==
    /\ op.name = "delete" =>
           /\ exc = NoExc
           /\ ret = (op.key \in DOMAIN pre)
           /\ _cache = Without(pre, op.key)
           /\ get(_cache, now, op.key).ret = None
           /\ ~__contains__(_cache, op.key)
           /\ delete(_cache, op.key).ret = FALSE
    /\ (op.name = "delete" /\ op.key \notin DOMAIN pre) =>
           exc = NoExc /\ ret = FALSE
    /\ \A k \in Keys \ DOMAIN pre :
           ~(op.name = "set" /\ op.key = k) => k \notin DOMAIN _cache

C6_Witness ==
    /\ op.name = "delete"
    /\ Expired(pre, now, op.key)
    /\ ret = TRUE
    /\ op.key \notin DOMAIN _cache
    /\ delete(_cache, op.key).ret = FALSE

\* C7: after clear the mapping is empty, size is 0 and get gives None, now
\* and at any later instant, for every key that was ever set.
C7_Clear ==
    /\ op.name = "clear" =>
           /\ exc = NoExc
           /\ DOMAIN _cache = {}
           /\ __len__(_cache) = 0
           /\ \A k \in Keys : \A t \in now .. MaxTime :
                  lastSet[k] # None => get(_cache, t, k).ret = None
    /\ (op.name = "len" /\ DOMAIN pre = {}) => ret = 0
    /\ (op.name = "get" /\ DOMAIN pre = {}) => ret = None

C7_Witness ==
    /\ op.name = "clear"
    /\ \E k1 \in Keys, k2 \in Keys : Expired(pre, now, k1) /\ Live(pre, now, k2)
    /\ __len__(_cache) = 0

\* C8: called one at a time, no operation raises; get, delete and contains of
\* a key that is not in the mapping give None, false and false and leave the
\* mapping as it was.
C8_Total ==
    /\ exc = NoExc
    /\ \A k \in Keys :
           /\ get(_cache, now, k).exc = NoExc
           /\ delete(_cache, k).exc = NoExc
    /\ (op.name \in {"get", "delete", "contains"} /\ op.key \notin DOMAIN pre) =>
           /\ _cache = pre
           /\ ret = (IF op.name = "get" THEN None ELSE FALSE)
    /\ op.name = "get" => ret \in Values \cup {None}
    /\ op.name \in {"delete", "contains"} => ret \in BOOLEAN
    /\ op.name = "len" => ret \in 0 .. Cardinality(Keys)
    /\ op.name \in {"set", "clear"} => ret = None

C8_Witness ==
    /\ op.name = "delete"
    /\ op.key \notin DOMAIN pre
    /\ lastSet[op.key] \in Values
    /\ ret = FALSE
    /\ exc = NoExc

\* ----------------------------------------------------------- claim C9
RaceDone == \A t \in RaceThreads : pc[t] = "done"

\* the threads whose set has assigned its entry to the mapping
Stored == {t \in DOMAIN pc : pc[t] \in {"done", "get_initial", "start_1",
                                         "start_2", "final_get", "end"}}

EntryOf(t) == [value |-> value_of[t], expires_at |-> expiration[t]]

\* C9: at every moment the entry of the key is the whole (value, expires_at)
\* pair of one set call, never one call's value with another's expiry, and
\* it is the pair of the call whose assignment to the mapping ran last; so
\* once all threads have finished (and before the main thread's last get)
\* the entry is there and is that last call's pair, whichever call computed
\* its expiry first.
C9_LastWriteWins ==
    /\ RaceKey \in DOMAIN _cache =>
           /\ \E t \in Stored : _cache[RaceKey] = EntryOf(t)
           /\ lastStore \in Stored
           /\ _cache[RaceKey] = EntryOf(lastStore)
    /\ (RaceDone /\ pc[Main] = "final_get") =>
           /\ RaceKey \in DOMAIN _cache
           /\ lastStore \in RaceThreads

\* both threads have finished and the one that computed its expiry earlier
\* has overwritten the entry of the one that computed it later
C9_Witness ==
    /\ RaceDone
    /\ lastStore \in RaceThreads
    /\ _cache[RaceKey] = EntryOf(lastStore)
    /\ \E u \in RaceThreads \ {lastStore} :
           expiration[u] > expiration[lastStore]

\* ---------------------------------------------------------- claim C10
TheWriter == CHOOSE w \in Writers : TRUE

\* C10 as stated: with one writer the cache holds, in every reachable state,
\* the store's current version or the one immediately before it.
C10_Original ==
    Cardinality(Writers) = 1 =>
        /\ HKey \in DOMAIN _cache
        /\ _cache[HKey].value \in {_db[HKey], db_prev}

\* C10, amended: with one writer, the store write of version_i comes before
\* the cache set of version_i, which comes before the store write of
\* version_(i+1); and whenever the key is in the cache mapping, the cache
\* holds the store's current version or the one immediately before it. (The
\* mapping can also hold no entry for the key, once the reader's get has
\* purged an expired one.)
C10_WriterOrder ==
    Cardinality(Writers) = 1 =>
        LET w == TheWriter IN
        /\ cache_sets[w] <= db_writes[w]
        /\ db_writes[w] <= cache_sets[w] + 1
        /\ db_writes[w] > 0 => _db[HKey] = new_value(db_writes[w] - 1)
        /\ HKey \in DOMAIN _cache =>
               /\ cache_sets[w] > 0 => _cache[HKey].value = new_value(cache_sets[w] - 1)
               /\ _cache[HKey].value \in {_db[HKey], db_prev}

\* the cache is one version behind the store
C10_Witness ==
    /\ Cardinality(Writers) = 1
    /\ cache_sets[TheWriter] >= 1
    /\ db_writes[TheWriter] = cache_sets[TheWriter] + 1
    /\ HKey \in DOMAIN _cache
    /\ _cache[HKey].value = db_prev
    /\ _cache[HKey].value # _db[HKey]

\* ------------------------------------------------------------ claim C11
\* the threads inside a critical section of the store (with self._lock)
InStore == {t \in DOMAIN pc : pc[t] \in {"db_locked", "db_read_locked"}}

\* the latest values the writers have written to the store so far
Written == {new_value(db_writes[w] - 1) : w \in {x \in Writers : db_writes[x] > 0}}

\* C11: the store's operations are serialized under one lock: at most one
\* thread is inside a critical section, and it is the holder of the lock;
\* a writer in its delay does not hold the lock; the store changes only in
\* the assignment step of a write, to the value of that write; a read
\* returns what the store holds at its step: the value of a latest
\* completed write, or the initial value when no write has completed.
C11_StoreSerialized ==
    [][ /\ Cardinality(InStore') <= 1
        /\ \A t \in DOMAIN pc' : (_lock' = t) <=> (t \in InStore')
        /\ (_db' # _db) =>
               \E w \in Writers :
                  /\ pc[w] = "db_locked"
                  /\ pc'[w] # "db_locked"
                  /\ _lock = w
                  /\ _db' = [_db EXCEPT ![HKey] = new_value(i[w])]
        /\ (pc[Reader] = "db_read_locked" /\ pc'[Reader] # "db_read_locked") =>
               /\ _lock = Reader
               /\ true_val' = _db[HKey]
               /\ _db' = _db
               /\ IF Written = {}
                  THEN true_val' = db_prev
                  ELSE true_val' \in Written
      ]_vars

\* a read is inside the store while two writers are in the delay of a
\* write, or wait for the lock, with a value the store does not hold
C11_Witness ==
    /\ pc[Reader] = "db_read_locked"
    /\ _lock = Reader
    /\ Cardinality(Writers) > 1
    /\ \A w \in Writers : pc[w] = "db_write" /\ _db[HKey] # new_value(i[w])

\* ------------------------------------------------------------ claim C12
\* the reader's step that reads the store, compares and counts the sample
SampleStep == pc[Reader] = "db_read_locked" /\ pc'[Reader] # "db_read_locked"

\* writer w is in its propagation gap: its latest store write has returned
\* and the cache set of that version has not assigned yet
InGap(w) == db_writes[w] = cache_sets[w] + 1

\* C12 as stated: in every run of one writer and the main thread's sampling
\* loop the measured staleness ratio is strictly greater than 0: when the
\* loop and the join are over, at least one sample was counted stale.
C12_Original == pc[Reader] = "end" => stale_count > 0

\* C12, amended: a sample that reads the store while the writer is in the
\* propagation gap of a version that differs from the one before it is
\* counted stale, and stale_count never decreases: the ratio is strictly
\* greater than 0 in every run that has such a sample, and only there is
\* it guaranteed.
C12_GapSampleCounted ==
    [][ /\ (SampleStep /\ InGap(TheWriter) /\ _db[HKey] # db_prev) =>
               stale_count' = stale_count + 1
        /\ stale_count' >= stale_count
      ]_vars

\* the sampling is over with a sample counted, the latest one read in a gap
C12_Witness ==
    /\ pc[Reader] = "join"
    /\ InGap(TheWriter)
    /\ true_val = _db[HKey]
    /\ true_val # db_prev
    /\ cached_val = db_prev
    /\ stale_count > 1

\* ------------------------------------------------------------ claim C13
\* C13: a sample reads the cache, then the store, and adds exactly one to
\* stale_count iff the two values differ, a miss (None) against a stored
\* value included; no other step changes stale_count or the number of
\* samples; 0 <= stale_count <= samples completed <= total_reads always,
\* so the final ratio stale_count / total_reads lies in [0, 1].
C13_ReaderCounts ==
    [][ /\ SampleStep =>
               /\ cached_val = ret
               /\ true_val' = _db[HKey]
               /\ reads' = reads + 1
               /\ stale_count' = stale_count + (IF cached_val = true_val' THEN 0 ELSE 1)
        /\ ~SampleStep => (stale_count' = stale_count /\ reads' = reads)
        /\ 0 <= stale_count'
        /\ stale_count' <= reads'
        /\ reads' <= total_reads
        /\ pc'[Reader] \in {"join", "end"} => reads' = total_reads
      ]_vars

\* the loop is over; its latest sample was a miss against a stored value
\* and was counted, and an earlier sample matched and was not
C13_Witness ==
    /\ pc[Reader] = "end"
    /\ reads = total_reads
    /\ cached_val = None
    /\ true_val # None
    /\ stale_count > 0
    /\ stale_count < reads

\* ------------------------------------------------------------ claim C14
\* C14: once both threads of the write-through race have finished, the
\* cached value is the value of the thread whose cache.set assigned last,
\* whichever database write was reported last: the entry is there with that
\* value when the main thread is about to make its last get, and that get
\* returns this value, or None when the entry of that last set has expired.
\* (The run in which this thread is not the one whose database write came
\* last, so that cache and database differ at the end, is C14_Witness.)
C14_CacheSetOrderDecides ==
    /\ (RaceDone /\ pc[Main] = "final_get") =>
           /\ lastStore \in RaceThreads
           /\ RaceKey \in DOMAIN _cache
           /\ _cache[RaceKey].value = value_of[lastStore]
           /\ _db[RaceKey] \in {value_of[t] : t \in RaceThreads}
    /\ pc[Main] = "end" =>
           /\ exc = NoExc
           /\ IF RaceKey \in DOMAIN _cache
              THEN ret = value_of[lastStore] /\ _cache[RaceKey].value = ret
              ELSE ret = None /\ now > expiration[lastStore]

\* both threads have finished, the last get has returned the cached value,
\* and it is not the value of the database write that was reported last
C14_Witness ==
    /\ pc[Main] = "end"
    /\ RaceDone
    /\ ret = value_of[lastStore]
    /\ _cache[RaceKey].value = ret
    /\ _db[RaceKey] # ret
    /\ _db[RaceKey] \in {value_of[t] : t \in RaceThreads}

\* ------------------------------------------------------------ claim C15
FieldsDone == \A t \in FieldThreads : pc[t] \in {"done", "raised"}

\* the fields of the dict that the mapping holds under the key
Entity == heap[_cache[FieldKey].value]

\* the update of thread t is in the dict d
UpdatedIn(d, t) == field_of[t] \in DOMAIN d /\ d[field_of[t]] = field_value[t]

\* the update of thread t is not in the dict d: its field still has its
\* initial value
LostIn(d, t) == field_of[t] \in DOMAIN d /\ d[field_of[t]] = InitialUser[field_of[t]]

\* C15: there is an interleaving after which, with all three threads
\* finished, the cached entity lacks one of the three updates, the field
\* still at its initial value (C15_Witness). It needs a get that returned
\* nothing: get returns the dict that the mapping holds, not a copy, and
\* every thread assigns its field on that one dict, so whenever every
\* thread's get returned a dict and all have finished, the mapping holds
\* the initial dict (until the main thread's last get, which returns it or
\* finds it expired) and all three updates are in it. In every case a
\* field of the cached entity has its initial or its updated value.
C15_LostOnlyAfterMiss ==
    FieldsDone =>
        /\ (\A t \in FieldThreads : pc[t] = "done" /\ locals[t].ret # None) =>
               /\ \A t \in FieldThreads : UpdatedIn(heap[user_data], t)
               /\ pc[Main] = "final_get" =>
                      FieldKey \in DOMAIN _cache /\ _cache[FieldKey].value = user_data
               /\ pc[Main] = "end" => ret \in {user_data, None}
        /\ FieldKey \in DOMAIN _cache =>
               \A t \in FieldThreads :
                   field_of[t] \in DOMAIN Entity =>
                       (UpdatedIn(Entity, t) \/ LostIn(Entity, t))

\* all three threads have returned, the last get has returned the cached
\* entity, and the update of one of them is not in it
C15_Witness ==
    /\ pc[Main] = "end"
    /\ \A t \in FieldThreads : pc[t] = "done"
    /\ FieldKey \in DOMAIN _cache
    /\ ret = _cache[FieldKey].value
    /\ \E t \in FieldThreads : LostIn(Entity, t)

\* ------------------------------------------------------------ claim C16
\* every writer has returned after exactly num_updates store writes and
\* cache sets, and the main thread has taken exactly total_reads samples,
\* joined the writers and ended
Terminated ==
    /\ \A w \in Writers :
           /\ pc[w] = "done"
           /\ db_writes[w] = num_updates
           /\ cache_sets[w] = num_updates
    /\ pc[Reader] = "end"
    /\ reads = total_reads

\* C16: under fair scheduling, with one writer or several, every run comes
\* to the state in which every writer has made exactly num_updates store
\* writes and num_updates cache sets and has returned, and the main thread
\* has taken exactly total_reads samples and ended, and stays there; on
\* the way no count exceeds its number and some thread can always take a
\* step: there is no deadlock on the store's lock.
C16_AllTerminate ==
    /\ [](/\ \A w \in Writers : db_writes[w] <= num_updates /\ cache_sets[w] <= num_updates
          /\ reads <= total_reads
          /\ Terminated \/ ENABLED (writer_thread \/ ReaderStep))
    /\ <>[]Terminated

\* two writers and the main thread have ended, after samples that met the
\* writers at work
C16_Witness ==
    /\ Terminated
    /\ Cardinality(Writers) > 1
    /\ stale_count > 0

\* ------------------------------------------------------------ claim C17
\* C17 as stated: lazy eviction removes only expired entries, also when
\* get(key) runs concurrently with set(key, v): a step that takes the key
\* out of the mapping takes out an entry that has expired, never the live
\* entry that a set has just written; so once the get and the set have both
\* finished, and until the ttl of that set has elapsed, the key is in the
\* mapping with the value of that set.
C17_PurgeOnlyExpired ==
    [][ /\ (HKey \in DOMAIN _cache /\ HKey \notin DOMAIN _cache') =>
               now > _cache[HKey].expires_at
        /\ (/\ pc'[Reader] \in {"db_read", "db_read_locked", "join", "end"}
            /\ \A w \in Writers : pc'[w] \notin {"set_time", "set_store"}
            /\ lastStore' \in Writers
            /\ ~(now' > expiration'[lastStore'])) =>
               /\ HKey \in DOMAIN _cache'
               /\ _cache'[HKey].value = lastSet'[HKey]
      ]_vars

\* ------------------------------------------------------------ claim C18
\* the delete calls that have returned True
DeletedBy == {t \in Tasks : op[t].name = "delete" /\ pc[t] = "done" /\ locals[t].ret = TRUE}

\* C18 as stated: for every interleaving of get, delete and clear calls
\* made on one key by different tasks, every call completes without an
\* exception, a get returns the stored value or None, and at most one
\* delete of the once-set key returns True: the one that removed the entry.
C18_ConcurrentTotal ==
    /\ \A t \in Tasks :
           /\ locals[t].exc = NoExc
           /\ pc[t] # "raised"
           /\ (op[t].name = "get" /\ pc[t] = "done") =>
                  locals[t].ret \in {None, lastSet[OpsKey]}
    /\ Cardinality(DeletedBy) <= 1

\* ------------------------------------------------------------ claim C19
AllWritersDone == \A w \in Writers : pc[w] = "done"

\* C19 as stated: with one writer or several on the same key, once all
\* writers have returned, the store holds version_(num_updates-1) and, as
\* long as the entry of the last cache set has not expired, so does the
\* cache: the key is in the mapping with that value and cache.get(key)
\* equals db.read(key).
C19_Converged ==
    AllWritersDone =>
        /\ _db[HKey] = new_value(num_updates - 1)
        /\ ~(now > expiration[lastStore]) =>
               /\ HKey \in DOMAIN _cache
               /\ _cache[HKey].value = new_value(num_updates - 1)
               /\ get(_cache, now, HKey).ret = db_get(_db, HKey)

\* ------------------------------------------------------------ claim C20
\* the number of a version: i for version_i, -1 for an initial value that
\* is no version_i
VersionIndex(v) ==
    IF \E n \in 0 .. num_updates : new_value(n) = v
    THEN CHOOSE n \in 0 .. num_updates : new_value(n) = v
    ELSE -1

\* C20: with one writer, a sample whose cache read was a hit (the entry had
\* not expired) never has the cache ahead of the store: the version read
\* from the cache is at most the version read from the store, and when the
\* sample is counted as a mismatch the cached version is strictly older.
C20_CacheNeverAhead ==
    [][ (SampleStep /\ Cardinality(Writers) = 1 /\ cached_val # None) =>
            /\ VersionIndex(cached_val) <= VersionIndex(true_val')
            /\ stale_count' > stale_count =>
                   VersionIndex(cached_val) < VersionIndex(true_val')
      ]_vars

\* a sample has been counted whose cached version is two behind the store's
C20_Witness ==
    /\ pc[Reader] \in {"get_contains", "join"}
    /\ reads > 0
    /\ stale_count > 0
    /\ cached_val # None
    /\ VersionIndex(cached_val) + 1 < VersionIndex(true_val)

\* ------------------------------------------------------------ claim C21
\* C21: what a call leaves alone. An entry leaves the mapping only in
\* delete on its key, in clear, or in get on its key when it has expired;
\* an entry appears or changes only in set on its key; so set, get and
\* delete on one key leave the entries of every other key as they were,
\* expired ones included. get on an absent or a live key, len and the
\* membership test leave the whole mapping as it was, and so does the
\* passing of time: nothing sweeps, an expired entry stays until a call on
\* its own key, or clear, takes it out.
C21_Frame ==
    /\ \A k \in DOMAIN pre \ DOMAIN _cache :
           \/ op.name = "delete" /\ op.key = k
           \/ op.name = "clear"
           \/ op.name = "get" /\ op.key = k /\ now > pre[k].expires_at
    /\ \A k \in DOMAIN _cache :
           (k \notin DOMAIN pre \/ _cache[k] # pre[k]) =>
               (op.name = "set" /\ op.key = k)
    /\ (op.name = "get" /\ ~Expired(pre, now, op.key)) => _cache = pre
    /\ op.name \in {"len", "contains", "tick", "init"} => _cache = pre

\* get has purged the expired entry of its key and left the expired entry
\* of the other key in the mapping
C21_Witness ==
    /\ op.name = "get"
    /\ Expired(pre, now, op.key)
    /\ op.key \notin DOMAIN _cache
    /\ \E k \in Keys \ {op.key} :
           /\ Expired(pre, now, k)
           /\ k \in DOMAIN _cache
           /\ _cache[k] = pre[k]

\* ------------------------------------------------------------ claim C22
\* the keys for which get would return a value now
Gettable(c, t) == {k \in Keys : get(c, t, k).ret # None}

\* the change that a call makes to the number of keys in the mapping
KeysDelta ==
    CASE op.name = "set" -> IF op.key \in DOMAIN pre THEN 0 ELSE 1
      [] op.name = "delete" -> IF op.key \in DOMAIN pre THEN -1 ELSE 0
      [] op.name = "get" -> IF Expired(pre, now, op.key) THEN -1 ELSE 0
      [] op.name = "clear" -> 0 - Cardinality(DOMAIN pre)
      [] OTHER -> 0

\* C22: len returns the number of keys in the raw mapping, expired and
\* unpurged entries counted, and changes nothing; that number goes up by
\* one in a set on a new key, down by one in a delete of a present key and
\* in a get of an expired key, to zero in clear, and moves in no other
\* call; so the number of keys for which get would return a value is at
\* most the size in every state (and can be less: C22_Witness).
C22_SizeIsRawCount ==
    /\ op.name = "len" =>
           /\ exc = NoExc
           /\ ret = Cardinality(DOMAIN pre)
           /\ _cache = pre
    /\ Cardinality(DOMAIN _cache) = Cardinality(DOMAIN pre) + KeysDelta
    /\ Gettable(_cache, now) \subseteq DOMAIN _cache
    /\ Cardinality(Gettable(_cache, now)) <= Cardinality(DOMAIN _cache)

\* len has returned 2 although get would return a value for no key
C22_Witness ==
    /\ op.name = "len"
    /\ ret = 2
    /\ Cardinality(DOMAIN _cache) = 2
    /\ Gettable(_cache, now) = {}

====
